---- MODULE Spec2Model ----
(***************************************************************************)
(* Model of csv_to_excel.py: the chunked CSV -> Excel splitter.            *)
(*                                                                         *)
(* Rows of the input are identified by their 1-based position in the CSV.  *)
(* A DataFrame is the ordered sequence of rows it holds, written as a      *)
(* sequence of maximal runs <<lo, hi>> of consecutive input rows: rows     *)
(* 1..50000 are << <<1, 50000>> >>, the empty frame is << >>, and a frame  *)
(* whose rows are not one contiguous slice of the input has several runs.  *)
(***************************************************************************)
EXTENDS Integers, Sequences, FiniteSets, TLC

\* ---------------------------------------------------------------- constants
chunk_size == 50000

ExcelHardLimit == 1048576

CliMaxRows == 1000000

DefaultRowsPerFile == 500000

\* ------------------------------------------------------------------- bounds
\* largest input, counted in full read units
MaxUnits == 24

MaxInputRows == MaxUnits * chunk_size

\* values of --rows / rows_per_file tried
RowsChoices ==
    { -1, 0, 1, 2, 49999, 50000, 50001, 100000, 499999, 500000, 500001,
      999999, 1000000, 1000001, 1100000, 2000000 }

\* largest input of the runs followed to their end, in full read units
LiveUnits == 4

\* rows_per_file of the runs followed to their end
LiveRows == { 0, 1, 50000, 100001, 2000000 }

\* input sizes tried: every read-unit boundary and one past it, and P, P+1
InputChoices ==
    { r \in { k * chunk_size + d : k \in 0..MaxUnits, d \in {0, 1} }
              \cup { p + d : p \in RowsChoices, d \in {0, 1} } :
        r >= 0 /\ r <= MaxInputRows }

VARIABLES
    via_cli,        \* TRUE: started through __main__; FALSE: function called directly
    args_rows,      \* args.rows (CLI) or the rows_per_file argument (direct call)
    input_rows,     \* R: number of records in the CSV
    input_exists,   \* os.path.exists(input_csv)
    empty_first,    \* the reader yields one empty frame for a record-less CSV
    rows_per_file,  \* parameter of convert_csv_to_excel
    pc,             \* position in the program
    pos,            \* rows consumed by csv_iterator so far
    first_chunk,    \* csv_iterator has not yielded yet
    current_data,   \* list of chunks
    current_rows,
    file_counter,
    written,        \* completed to_excel calls, in order: [part, data]
    disk,           \* files on disk written by this run: part number -> content
    exit_status,    \* process exit status: 0 or 1, -1 while running
    error,          \* which step raised, "none" if none
    return_value,   \* what convert_csv_to_excel returned: << >> is None, <<n>> is n
    run,            \* 1: first run on this input; 2: the same command run again
    first_written   \* the frames written by the first run, in order

vars == << via_cli, args_rows, input_rows, input_exists, empty_first,
           rows_per_file, pc, pos, first_chunk, current_data, current_rows,
           file_counter, written, disk, exit_status, error, return_value,
           run, first_written >>

inputs == << via_cli, args_rows, input_rows, input_exists, empty_first >>

locals == << current_data, current_rows, file_counter >>

session == << run, first_written >>

\* --------------------------------------------------------------- dataframes
Min(a, b) == IF a <= b THEN a ELSE b

\* rows lo..hi of the input as a frame (empty when hi < lo)
Rows(lo, hi) == IF hi < lo THEN << >> ELSE << <<lo, hi>> >>

\* len(df)
RECURSIVE RowCount(_)
RowCount(df) ==
    IF df = << >> THEN 0
    ELSE (Head(df)[2] - Head(df)[1] + 1) + RowCount(Tail(df))

\* rows of a followed by rows of b
AppendRows(a, b) ==
    IF b = << >> THEN a
    ELSE IF a = << >> THEN b
    ELSE IF a[Len(a)][2] + 1 = b[1][1]
         THEN SubSeq(a, 1, Len(a) - 1)
                \o << << a[Len(a)][1], b[1][2] >> >>
                \o Tail(b)
         ELSE a \o b

\* the frames joined last to first
RECURSIVE Concat_Reversed(_)
Concat_Reversed(frames) ==
    IF frames = << >> THEN << >>
    ELSE AppendRows(Concat_Reversed(Tail(frames)), Head(frames))

\* pd.concat(frames)
RECURSIVE Concat(_)
Concat(frames) ==
    IF frames = << >> THEN << >>
    ELSE AppendRows(Head(frames), Concat(Tail(frames)))

\* ------------------------------------------------------------ pure helpers
\* the warning is printed but args.rows is not reset
ClampRows_None(r) == r

\* __main__: args.rows > 1000000 is reset to 1000000
ClampRows(r) == IF r > CliMaxRows THEN CliMaxRows ELSE r

\* the chunk the reader yields at position p of an input of n rows
ReadChunk(p, n) == Rows(p + 1, Min(p + chunk_size, n))

\* the reader stops before a last, shorter chunk
HasNext_OffByOne == pos + chunk_size <= input_rows

\* csv_iterator has another chunk
HasNext == \/ pos < input_rows
           \/ input_rows = 0 /\ first_chunk /\ empty_first

\* the threshold test written with > instead of >=
ShouldFlush_Strict(rows, limit) == rows > limit

\* if current_rows >= rows_per_file
ShouldFlush(rows, limit) == rows >= limit

\* the over-limit branch cuts the frame down to the first 1,048,576 rows
CheckHardLimit_Trim(df) ==
    IF RowCount(df) > ExcelHardLimit
    THEN << << df[1][1], df[1][1] + ExcelHardLimit - 1 >> >>
    ELSE df

\* the "over Excel's hard limit" branch is a pass: the frame is written as is
CheckHardLimit(df) == IF RowCount(df) > ExcelHardLimit THEN df ELSE df

\* output_filename = f"{output_prefix}_part{file_counter}.xlsx"
OutputFilename(counter) == counter

\* df_part.to_excel(output_filename): creates or replaces the file
ToExcel(d, name, df) ==
    [ n \in DOMAIN d \cup {name} |->
        IF n = name THEN [complete |-> TRUE, data |-> df] ELSE d[n] ]

\* a to_excel call that raised part-way: the file is left incomplete
ToExcelInterrupted(d, name) ==
    [ n \in DOMAIN d \cup {name} |->
        IF n = name THEN [complete |-> FALSE, data |-> << >>] ELSE d[n] ]

\* current_data is not emptied after a flush
ClearedData_Kept == current_data

\* current_data = [] after a threshold flush
ClearedData == << >>

\* current_rows keeps counting after a flush
ClearedRows_Kept == current_rows

\* current_rows = 0 after a threshold flush
ClearedRows == 0

\* file_counter is not advanced
NextCounter_Stuck(counter) == counter

\* file_counter += 1
NextCounter(counter) == counter + 1

\* the function ends with "return file_counter"
ReturnValue_Counter == << file_counter >>

\* the function has no return statement: it returns None
ReturnValue == << >>

\* the exception is reported but the loop goes on
ExceptHandler_Swallow(what) ==
    /\ pc' = "for"
    /\ exit_status' = exit_status
    /\ error' = what

\* except Exception: sys.exit(1)
ExceptHandler(what) ==
    /\ pc' = "exit"
    /\ exit_status' = 1
    /\ error' = what

\* --------------------------------------------------------------------- init
Init ==
    /\ via_cli \in BOOLEAN
    /\ args_rows \in RowsChoices
    /\ input_rows \in InputChoices
    /\ input_exists \in BOOLEAN
    /\ empty_first \in BOOLEAN
    /\ (input_rows # 0 => empty_first = FALSE)
    /\ rows_per_file = DefaultRowsPerFile
    /\ pc = "main"
    /\ pos = 0
    /\ first_chunk = TRUE
    /\ current_data = << >>
    /\ current_rows = 0
    /\ file_counter = 1
    /\ written = << >>
    /\ disk = << >>
    /\ exit_status = -1
    /\ error = "none"
    /\ return_value = << >>
    /\ run = 1
    /\ first_written = << >>

\* ------------------------------------------------------------------ actions
\* __main__: parse, clamp, call convert_csv_to_excel(args.input_csv, None, args.rows)
Main ==
    /\ pc = "main" /\ via_cli
    /\ rows_per_file' = ClampRows(args_rows)
    /\ pc' = "exists"
    /\ UNCHANGED << inputs, session, pos, first_chunk, locals, written, disk, exit_status, error >>
    /\ return_value' = return_value

\* convert_csv_to_excel called by importing code, no clamp
DirectCall ==
    /\ pc = "main" /\ ~via_cli
    /\ rows_per_file' = args_rows
    /\ pc' = "exists"
    /\ UNCHANGED << inputs, session, pos, first_chunk, locals, written, disk, exit_status, error >>
    /\ return_value' = return_value

\* the error is printed but sys.exit(1) is missing
MissingInput_NoExit ==
    /\ pc = "exists" /\ ~input_exists
    /\ pc' = "for"
    /\ UNCHANGED << inputs, session, rows_per_file, pos, first_chunk, locals, written, disk,
                    exit_status, error >>
    /\ return_value' = return_value

\* if not os.path.exists(input_csv): sys.exit(1)
MissingInput ==
    /\ pc = "exists" /\ ~input_exists
    /\ pc' = "exit"
    /\ exit_status' = 1
    /\ error' = "missing"
    /\ UNCHANGED << inputs, session, rows_per_file, pos, first_chunk, locals, written, disk >>
    /\ return_value' = return_value

\* the accumulators are module-level state that a second call inherits
OpenReader_NoInit ==
    /\ pc = "exists" /\ input_exists
    /\ pos' = 0
    /\ first_chunk' = TRUE
    /\ pc' = "for"
    /\ UNCHANGED << inputs, session, rows_per_file, locals, written, disk, exit_status, error >>
    /\ return_value' = return_value

\* locals initialised, csv_iterator = pd.read_csv(..., chunksize=chunk_size)
OpenReader ==
    /\ pc = "exists" /\ input_exists
    /\ current_data' = << >>
    /\ current_rows' = 0
    /\ file_counter' = 1
    /\ pos' = 0
    /\ first_chunk' = TRUE
    /\ pc' = "for"
    /\ UNCHANGED << inputs, session, rows_per_file, written, disk, exit_status, error >>
    /\ return_value' = return_value

\* pd.read_csv raises (unreadable file, no columns to parse)
OpenFail ==
    /\ pc = "exists" /\ input_exists
    /\ ExceptHandler("open")
    /\ UNCHANGED << inputs, session, rows_per_file, pos, first_chunk, locals, written, disk >>
    /\ return_value' = return_value

\* for chunk in csv_iterator: current_data.append(chunk); current_rows += len(chunk)
NextChunk ==
    /\ pc = "for" /\ HasNext
    /\ LET chunk == ReadChunk(pos, input_rows) IN
        /\ current_data' = Append(current_data, chunk)
        /\ current_rows' = current_rows + RowCount(chunk)
        /\ pos' = pos + RowCount(chunk)
    /\ first_chunk' = FALSE
    /\ pc' = "check"
    /\ UNCHANGED << inputs, session, rows_per_file, file_counter, written, disk, exit_status, error >>
    /\ return_value' = return_value

\* the reader raises on the next chunk (malformed record)
ReadFail ==
    /\ pc = "for" /\ pos < input_rows
    /\ ExceptHandler("read")
    /\ UNCHANGED << inputs, session, rows_per_file, pos, first_chunk, locals, written, disk >>
    /\ return_value' = return_value

\* the for loop ends: StopIteration
Exhausted ==
    /\ pc = "for" /\ ~HasNext
    /\ pc' = "remaining"
    /\ UNCHANGED << inputs, session, rows_per_file, pos, first_chunk, locals, written, disk, exit_status, error >>
    /\ return_value' = return_value

\* threshold not reached: next iteration
Accumulate ==
    /\ pc = "check" /\ ~ShouldFlush(current_rows, rows_per_file)
    /\ pc' = "for"
    /\ UNCHANGED << inputs, session, rows_per_file, pos, first_chunk, locals, written, disk, exit_status, error >>
    /\ return_value' = return_value

\* threshold reached: concat, write part{file_counter}, clear, count up
ThresholdFlush ==
    /\ pc = "check" /\ ShouldFlush(current_rows, rows_per_file)
    /\ LET df_part == CheckHardLimit(Concat(current_data))
           output_filename == OutputFilename(file_counter) IN
        /\ disk' = ToExcel(disk, output_filename, df_part)
        /\ written' = Append(written, [part |-> output_filename, data |-> df_part])
    /\ current_data' = ClearedData
    /\ current_rows' = ClearedRows
    /\ file_counter' = NextCounter(file_counter)
    /\ pc' = "for"
    /\ UNCHANGED << inputs, session, rows_per_file, pos, first_chunk, exit_status, error >>
    /\ return_value' = return_value

\* a flush is due (threshold or remainder)
FlushDue ==
    \/ pc = "check" /\ ShouldFlush(current_rows, rows_per_file)
    \/ pc = "remaining" /\ current_data # << >>

\* pd.concat raises
ConcatFail ==
    /\ FlushDue
    /\ ExceptHandler("concat")
    /\ UNCHANGED << inputs, session, rows_per_file, pos, first_chunk, locals, written, disk >>
    /\ return_value' = return_value

\* to_excel raises (disk full, permission): the file is absent or left incomplete
WriteFail ==
    /\ FlushDue
    /\ \/ disk' = disk
       \/ disk' = ToExcelInterrupted(disk, OutputFilename(file_counter))
    /\ ExceptHandler("write")
    /\ UNCHANGED << inputs, session, rows_per_file, pos, first_chunk, locals, written >>
    /\ return_value' = return_value

\* the remainder is dropped
FinalFlush_Skip ==
    /\ pc = "remaining" /\ current_data # << >>
    /\ pc' = "done"
    /\ exit_status' = 0
    /\ UNCHANGED << inputs, session, rows_per_file, pos, first_chunk, locals, written, disk, error >>
    /\ return_value' = ReturnValue

\* if current_data: write the remainder; then "All conversions successful!"
FinalFlush ==
    /\ pc = "remaining" /\ current_data # << >>
    /\ LET df_part == Concat(current_data)
           output_filename == OutputFilename(file_counter) IN
        /\ disk' = ToExcel(disk, output_filename, df_part)
        /\ written' = Append(written, [part |-> output_filename, data |-> df_part])
    /\ pc' = "done"
    /\ exit_status' = 0
    /\ UNCHANGED << inputs, session, rows_per_file, pos, first_chunk, locals, error >>
    /\ return_value' = ReturnValue

\* the remainder is written without testing current_data
NoRemainder_Writes ==
    /\ pc = "remaining" /\ current_data = << >>
    /\ disk' = ToExcel(disk, OutputFilename(file_counter), << >>)
    /\ written' = Append(written, [part |-> OutputFilename(file_counter), data |-> << >>])
    /\ pc' = "done"
    /\ exit_status' = 0
    /\ UNCHANGED << inputs, session, rows_per_file, pos, first_chunk, locals, error >>
    /\ return_value' = ReturnValue

\* if current_data: is false; then "All conversions successful!"
NoRemainder ==
    /\ pc = "remaining" /\ current_data = << >>
    /\ pc' = "done"
    /\ exit_status' = 0
    /\ UNCHANGED << inputs, session, rows_per_file, pos, first_chunk, locals, written, disk, error >>
    /\ return_value' = ReturnValue

\* the same command is run a second time on the same input: the files of the
\* first run stay on disk, everything else starts afresh
RunAgain ==
    /\ pc = "done" /\ run = 1
    /\ run' = 2
    /\ first_written' = [ k \in 1..Len(written) |-> written[k].data ]
    /\ written' = << >>
    /\ pc' = "main"
    /\ exit_status' = -1
    /\ return_value' = << >>
    /\ UNCHANGED << inputs, rows_per_file, pos, first_chunk, locals, disk, error >>

Next ==
    \/ Main
    \/ DirectCall
    \/ MissingInput
    \/ OpenReader
    \/ OpenFail
    \/ NextChunk
    \/ ReadFail
    \/ Exhausted
    \/ Accumulate
    \/ ThresholdFlush
    \/ ConcatFail
    \/ WriteFail
    \/ FinalFlush
    \/ NoRemainder
    \/ RunAgain

Spec == Init /\ [][Next]_vars

\* the runs followed to their end: inputs of at most LiveUnits read units
LiveInit ==
    /\ Init
    /\ args_rows \in LiveRows
    /\ input_rows <= LiveUnits * chunk_size

\* one synchronous thread: the program always goes on to its next statement
FairSpec == LiveInit /\ [][Next]_vars /\ WF_vars(Next)

\* ------------------------------------------------------------ typing / sanity
TypeOK ==
    /\ pc \in {"main", "exists", "for", "check", "remaining", "done", "exit"}
    /\ exit_status \in {-1, 0, 1}
    /\ pos \in 0..input_rows
    /\ current_rows \in Nat
    /\ file_counter \in Nat \ {0}
    /\ run \in {1, 2}
    /\ return_value \in {<< >>} \cup { <<n>> : n \in 0..(MaxUnits + 2) }

\* ------------------------------------------------------------------ claims
\* the run finished without error
Succeeded == pc = "done"

\* rowsPerFile in the range the CLI lets through
ValidRowsPerFile == rows_per_file >= 1 /\ rows_per_file <= CliMaxRows

\* rows of the k-th artifact written
ArtifactRows(k) == RowCount(written[k].data)

RECURSIVE TotalRows(_)
TotalRows(w) == IF w = << >> THEN 0 ELSE RowCount(Head(w).data) + TotalRows(Tail(w))

\* the files part1..partN read back from disk, in part order
PartsOnDisk == [ k \in 1..Len(written) |-> disk[k].data ]

\* C1: when the run finishes without error and 1 <= P <= 1,000,000, the row
\* counts of the artifacts written sum exactly to R.
C1_RowsSumToInput ==
    (Succeeded /\ ValidRowsPerFile) => TotalRows(written) = input_rows

C1_Witness ==
    /\ Succeeded /\ ValidRowsPerFile
    /\ Len(written) >= 3
    /\ ArtifactRows(Len(written)) < rows_per_file

\* C2: the artifacts, concatenated in part order, are the input record
\* sequence, and each artifact is one contiguous slice of the input.
C2_RoundTrip ==
    Succeeded =>
        /\ DOMAIN disk = 1..Len(written)
        /\ \A k \in 1..Len(written) : disk[k].complete /\ Len(disk[k].data) <= 1
        /\ Concat(PartsOnDisk) = Rows(1, input_rows)

C2_Witness ==
    /\ Succeeded
    /\ Len(written) >= 3
    /\ \E k \in 1..Len(written) : ArtifactRows(k) > chunk_size

\* C3: with 1 <= P <= 1,000,000 and read units of 50,000 rows no artifact
\* has more than 1,048,576 rows.
C3_UnderHardLimit ==
    ValidRowsPerFile =>
        \A k \in 1..Len(written) : ArtifactRows(k) <= ExcelHardLimit

C3_Witness ==
    /\ rows_per_file = CliMaxRows - 1
    /\ \E k \in 1..Len(written) : ArtifactRows(k) = CliMaxRows

\* C4: every artifact except possibly the last one written has at least P rows.
C4_OnlyLastUndersized ==
    \A k \in 1..(Len(written) - 1) : ArtifactRows(k) >= rows_per_file

C4_Witness ==
    /\ Succeeded
    /\ Len(written) >= 2
    /\ ArtifactRows(Len(written)) < rows_per_file
    /\ ArtifactRows(1) > rows_per_file

\* C5: the k-th file written is part k: numbering starts at 1, advances by one
\* per flush, and no part number is skipped or reused, so no artifact of the
\* run is overwritten.
C5_PartOrder ==
    /\ \A k \in 1..Len(written) :
         /\ written[k].part = k
         /\ disk[k] = [complete |-> TRUE, data |-> written[k].data]
    /\ (pc \in {"for", "check", "remaining"} => file_counter = Len(written) + 1)

C5_Witness ==
    /\ Succeeded
    /\ Len(written) >= 4
    /\ written[4].part = 4

\* C6 (as stated): R = P+1 gives a first artifact of at least P rows and a
\* second artifact with the remainder.
C6_Original ==
    (Succeeded /\ rows_per_file >= 1 /\ input_rows = rows_per_file + 1) =>
        /\ Len(written) = 2
        /\ ArtifactRows(1) >= rows_per_file
        /\ ArtifactRows(2) = input_rows - ArtifactRows(1)

\* C6 (amended): R = P+1 gives a first artifact of at least P rows; when P is
\* a multiple of the read-unit size that artifact has exactly P rows and a
\* second artifact holds the one remaining row; otherwise the first artifact
\* holds all P+1 rows and is the only one.
C6_Amended ==
    (Succeeded /\ rows_per_file >= 1 /\ input_rows = rows_per_file + 1) =>
        /\ Len(written) >= 1
        /\ ArtifactRows(1) >= rows_per_file
        /\ IF rows_per_file % chunk_size = 0
           THEN Len(written) = 2 /\ ArtifactRows(1) = rows_per_file /\ ArtifactRows(2) = 1
           ELSE Len(written) = 1 /\ ArtifactRows(1) = rows_per_file + 1

C6_Witness ==
    /\ Succeeded /\ rows_per_file >= 1 /\ input_rows = rows_per_file + 1
    /\ rows_per_file % chunk_size # 0
    /\ rows_per_file > chunk_size
    /\ Len(written) = 1

\* C7: R = P gives exactly one artifact, of P rows.
C7_ExactlyOne ==
    (Succeeded /\ rows_per_file >= 1 /\ input_rows = rows_per_file) =>
        Len(written) = 1 /\ ArtifactRows(1) = rows_per_file

C7_Witness ==
    /\ Succeeded /\ rows_per_file >= 1 /\ input_rows = rows_per_file
    /\ rows_per_file % chunk_size # 0
    /\ rows_per_file > chunk_size
    /\ Len(written) = 1

\* C8: an input with no records produces zero artifacts (and the run ends
\* successfully).
C8_EmptyInputNoArtifact ==
    (Succeeded /\ input_rows = 0) => (written = << >> /\ disk = << >> /\ exit_status = 0)

\* C9: a missing input path ends the run with exit status 1 before any
\* processing: nothing is read and nothing is written.
C9_MissingInput ==
    ~input_exists =>
        /\ pc \in {"main", "exists", "exit"}
        /\ (pc = "exit" => exit_status = 1)
        /\ pos = 0 /\ first_chunk
        /\ written = << >> /\ disk = << >>

C9_Witness ==
    ~input_exists /\ pc = "exit" /\ exit_status = 1 /\ error = "missing"

\* C10: a failing step of the main loop ends the run at once with exit status
\* 1; after it nothing more is read or written; every artifact completely
\* flushed before stays as it was.
C10_Step ==
    /\ (error = "none" /\ error' # "none") => (pc' = "exit" /\ exit_status' = 1)
    /\ error # "none" => UNCHANGED << pos, first_chunk, written, disk, locals, exit_status >>
    /\ run' = run =>
         /\ Len(written') >= Len(written)
         /\ \A k \in 1..Len(written) :
              /\ written'[k] = written[k]
              /\ written[k].part \in DOMAIN disk'
              /\ disk'[written[k].part] = disk[written[k].part]

C10_FailureStops == [][C10_Step]_vars

C10_Witness ==
    /\ error \in {"read", "concat", "write"}
    /\ exit_status = 1
    /\ Len(written) >= 2
    /\ pos < input_rows

\* C11: at the CLI a --rows value above 1,000,000 reaches the splitter as
\* exactly 1,000,000; a value at or below 1,000,000 is passed unchanged.
C11_CliClamp ==
    (via_cli /\ pc # "main") =>
        /\ (args_rows > 1000000 => rows_per_file = 1000000)
        /\ (args_rows <= 1000000 => rows_per_file = args_rows)

C11_Witness ==
    /\ via_cli /\ pc = "for"
    /\ args_rows = 2000000
    /\ rows_per_file = 1000000

\* C12 (as stated): the call returns the count of artifacts written.
C12_Original ==
    Succeeded => return_value = << Len(written) >>

\* C12 (amended): the call returns no value (None); the count of artifacts
\* written shows only in the part counter: it is file_counter - 1 when no
\* remainder was flushed and file_counter when one was.
C12_Amended ==
    Succeeded =>
        /\ return_value = << >>
        /\ Len(written) = IF current_data = << >> THEN file_counter - 1 ELSE file_counter

C12_Witness ==
    /\ Succeeded
    /\ Len(written) = 3
    /\ file_counter = 3
    /\ return_value = << >>

\* C13: on an existing path with a finite input and no read or write failure
\* the run terminates: every read unit has been consumed exactly once, the
\* remainder (if any) has been flushed, and the exit status is 0, not 1.
C13_Terminates ==
    (pc = "exists" /\ input_exists) ~>
        \/ error # "none"
        \/ /\ pc = "done"
           /\ exit_status = 0
           /\ pos = input_rows
           /\ Concat([ k \in 1..Len(written) |-> written[k].data ]) = Rows(1, input_rows)

C13_Witness ==
    /\ pc = "done" /\ exit_status = 0 /\ error = "none"
    /\ pos = input_rows
    /\ input_rows > chunk_size
    /\ current_data # << >>
    /\ Len(written) >= 2

\* C14: running the splitter twice on the same input with the same
\* rowsPerFile gives the same number of artifacts with the same rows and the
\* same partition boundaries.
C14_SameOnRerun ==
    (run = 2 /\ Succeeded) =>
        [ k \in 1..Len(written) |-> written[k].data ] = first_written

C14_Witness ==
    /\ run = 2 /\ Succeeded
    /\ Len(written) >= 3
    /\ ArtifactRows(Len(written)) < rows_per_file

\* C15: the threshold is tested only after a whole read unit is appended, so
\* every artifact has at most P + chunk_size - 1 rows; for P = 500,000 each
\* non-final artifact has between 500,000 and 549,999 rows, and 1,200,000
\* input rows give exactly three artifacts.
C15_Overshoot ==
    rows_per_file >= 1 =>
        /\ \A k \in 1..Len(written) : ArtifactRows(k) <= rows_per_file + chunk_size - 1
        /\ rows_per_file = 500000 =>
             /\ \A k \in 1..(Len(written) - 1) :
                  ArtifactRows(k) >= 500000 /\ ArtifactRows(k) <= 549999
             /\ (Succeeded /\ input_rows = 1200000) => Len(written) = 3

C15_Witness ==
    /\ Succeeded
    /\ rows_per_file = 500000 /\ input_rows = 1200000
    /\ Len(written) = 3
    /\ TotalRows(written) = 1200000

\* C16: the accumulator is bounded whatever the input size: at the start of
\* every loop iteration and after the loop the running count is below P, and
\* it never exceeds P + chunk_size - 1, for any P >= 1.
C16_AccumulatorBound ==
    rows_per_file >= 1 =>
        /\ (pc \in {"for", "remaining"} => current_rows < rows_per_file)
        /\ current_rows <= rows_per_file + chunk_size - 1
        /\ RowCount(Concat(current_data)) <= rows_per_file + chunk_size - 1

C16_Witness ==
    /\ pc = "for"
    /\ rows_per_file = 100000
    /\ input_rows = MaxInputRows
    /\ pos = input_rows - chunk_size
    /\ current_rows = chunk_size

\* C17: when the rows accumulated at a flush exceed 1,048,576 the splitter
\* does nothing about it: unless concat or to_excel raises, the whole frame is
\* written, nothing is trimmed or carried forward, and the step raises nothing
\* of its own.
C17_Step ==
    (pc = "check" /\ ShouldFlush(current_rows, rows_per_file)
        /\ current_rows > ExcelHardLimit) =>
        \/ error' \in {"concat", "write"} /\ written' = written
        \/ /\ error' = "none"
           /\ Len(written') = Len(written) + 1
           /\ RowCount(written'[Len(written')].data) = current_rows
           /\ disk'[file_counter].data = Concat(current_data)
           /\ current_data' = << >>
           /\ current_rows' = 0

C18_AccumulatorConsistent ==
    /\ TotalRows([ k \in 1..Len(current_data) |-> [data |-> current_data[k]] ]) = current_rows
    /\ (current_data # << >>) <=> (current_rows > 0)
    /\ pc \in {"for", "check", "remaining"} =>
         /\ file_counter = Len(written) + 1
         /\ Concat(current_data) = Rows(TotalRows(written) + 1, pos)

\* C19: no read unit is split across two artifacts; every non-final artifact
\* has the same size, the smallest multiple of 50,000 that is >= P, and for
\* R > 0 the number of artifacts is ceil(R / that size).
ArtifactSize == ((rows_per_file + 50000 - 1) \div 50000) * 50000

C19_WholeReadUnits ==
    rows_per_file >= 1 =>
        /\ \A k \in 1..Len(written) :
             /\ Len(written[k].data) <= 1
             /\ written[k].data # << >> =>
                  /\ written[k].data[1][1] % 50000 = 1
                  /\ written[k].data[1][2] % 50000 = 0 \/ written[k].data[1][2] = input_rows
        /\ \A k \in 1..(Len(written) - 1) : ArtifactRows(k) = ArtifactSize
        /\ (Succeeded /\ input_rows > 0) =>
             Len(written) = (input_rows + ArtifactSize - 1) \div ArtifactSize

C19_Witness ==
    /\ Succeeded
    /\ rows_per_file = 100000
    /\ input_rows = 1000001
    /\ Len(written) = 11
    /\ ArtifactRows(11) = 1

\* C20: no artifact is written with zero rows, whatever rows_per_file is
\* (non-positive values included), provided every read unit the reader yields
\* is non-empty.
C20_NoEmptyArtifact ==
    ~(input_rows = 0 /\ empty_first) =>
        \A k \in 1..Len(written) : ArtifactRows(k) > 0

C20_Witness ==
    /\ rows_per_file <= 0
    /\ ~(input_rows = 0 /\ empty_first)
    /\ Len(written) >= 2
    /\ pc = "done"

====
